---- MODULE Spec2Model ----
(***************************************************************************)
(* A model of the dynamicworld helpers:                                    *)
(*   base.py  BaseCollector.get_intervals, BaseCollector.reduce_to_intervals*)
(*   dw.py    DynamicWorld.get_mode_label / get_mode_confidence,           *)
(*            DynamicWorld.get_max_median_label / get_max_median_confidence*)
(* Every operation is a static method without shared state, so each has    *)
(* its own specification over its own variables; the variables of the      *)
(* other operations stay at their idle values.                             *)
(*                                                                         *)
(* Time.  A calendar day is its ordinal (days since Epoch); a timestamp is *)
(* counted in half days (2 * ordinal is midnight, 2 * ordinal + 1 is noon),*)
(* the resolution at which "the same day, later than midnight" shows.  A   *)
(* date string '%Y-%m-%d' is the tuple <<y, m, d>>.                        *)
(***************************************************************************)
EXTENDS Integers, Sequences, FiniteSets, TLC

VARIABLES
    \* get_intervals
    start, end, freq, gi_pc, gi_result,
    \* reduce_to_intervals
    collection, intervals, method, meta_type, names,
    idx, subset, images, attempted, rd_pc,
    \* get_mode_label
    series, label, confidence, ml_pc,
    \* get_max_median_label
    pseries, median, plabel, pconfidence, mm_pc,
    \* get_error_matrix
    region, npoints, samples, matrix, accuracy, em_pc,
    \* get_normalised_error_matrix
    em, labels, df, nm_pc

vars == << start, end, freq, gi_pc, gi_result,
           collection, intervals, method, meta_type, names,
           idx, subset, images, attempted, rd_pc,
           series, label, confidence, ml_pc,
           pseries, median, plabel, pconfidence, mm_pc,
           region, npoints, samples, matrix, accuracy, em_pc,
           em, labels, df, nm_pc >>

giVars == << start, end, freq, gi_pc, gi_result >>
rdVars == << collection, intervals, method, meta_type, names,
             idx, subset, images, attempted, rd_pc >>
mlVars == << series, label, confidence, ml_pc >>
mmVars == << pseries, median, plabel, pconfidence, mm_pc >>
emVars == << region, npoints, samples, matrix, accuracy, em_pc >>
nmVars == << em, labels, df, nm_pc >>

None == "None"

(***************************************************************************)
(* Bounds of the model.                                                    *)
(***************************************************************************)
\* get_intervals: start and end range over FirstDate .. FirstDate + MaxSpan days
MaxSpan == 68
\* reduce_to_intervals: dates of FirstDate .. FirstDate + MaxReduceSpan days
MaxReduceSpan == 1
\* reduce_to_intervals: images in the collection, intervals in the list
MaxImages == 2
MaxIntervals == 2
\* get_mode_label: classes 0 .. NumClasses - 1, images in the series
NumClasses == 3
MaxObs == 5
\* get_max_median_label: images in the series
MaxProbImages == 2
\* get_error_matrix: pixels of the region, points asked for per class
MaxPixels == 3
MaxPoints == 1
\* get_normalised_error_matrix: rows of the matrix, largest count of a cell
MaxDim == 2
MaxCount == 2

(***************************************************************************)
(* The proleptic Gregorian calendar, as pandas and Earth Engine use it.    *)
(***************************************************************************)
Epoch == << 2023, 1, 1 >>          \* ordinal 0, a Sunday

IsLeap(y) == (y % 4 = 0 /\ y % 100 # 0) \/ y % 400 = 0

DaysInYear(y) == IF IsLeap(y) THEN 366 ELSE 365

DaysInMonth(y, m) ==
    IF m = 2 THEN (IF IsLeap(y) THEN 29 ELSE 28)
    ELSE IF m \in {4, 6, 9, 11} THEN 30 ELSE 31

RECURSIVE DaysBeforeYear(_)
DaysBeforeYear(y) ==
    IF y <= Epoch[1] THEN 0 ELSE DaysBeforeYear(y - 1) + DaysInYear(y - 1)

RECURSIVE DaysBeforeMonth(_, _)
DaysBeforeMonth(y, m) ==
    IF m <= 1 THEN 0 ELSE DaysBeforeMonth(y, m - 1) + DaysInMonth(y, m - 1)

\* parsing '%Y-%m-%d' (pd.Period(str), ee.Date(str)): the day's ordinal
ToOrdinal(date) ==
    DaysBeforeYear(date[1]) + DaysBeforeMonth(date[1], date[2]) + (date[3] - 1)

RECURSIVE YearFrom(_, _)
YearFrom(n, y) ==
    IF n < DaysInYear(y) THEN << y, n >> ELSE YearFrom(n - DaysInYear(y), y + 1)

RECURSIVE MonthFrom(_, _, _)
MonthFrom(n, y, m) ==
    IF n < DaysInMonth(y, m) THEN << y, m, n + 1 >>
    ELSE MonthFrom(n - DaysInMonth(y, m), y, m + 1)

\* strftime( '%Y-%m-%d' ) of the day with ordinal n >= 0
Strftime(n) ==
    LET yn == YearFrom(n, Epoch[1]) IN MonthFrom(yn[2], yn[1], 1)

\* order of two date strings, read off their fields
DateLT(a, b) ==
    \/ a[1] < b[1]
    \/ a[1] = b[1] /\ a[2] < b[2]
    \/ a[1] = b[1] /\ a[2] = b[2] /\ a[3] < b[3]

DateLE(a, b) == a = b \/ DateLT(a, b)

\* the day after a date
NextDate(a) ==
    IF a[3] < DaysInMonth(a[1], a[2]) THEN << a[1], a[2], a[3] + 1 >>
    ELSE IF a[2] < 12 THEN << a[1], a[2] + 1, 1 >>
    ELSE << a[1] + 1, 1, 1 >>

\* a timestamp in half days: midnight of a day, and the day of a timestamp
Midnight(n) == 2 * n
DayOf(t) == t \div 2

(***************************************************************************)
(* pandas periods.  A period of a frequency is numbered by its ordinal:    *)
(* D days, W weeks Monday..Sunday (W-SUN), M months, Q quarters (Q-DEC),   *)
(* Y years.                                                                *)
(***************************************************************************)
Frequencies == { "D", "W", "M", "Q", "Y" }

\* pd.Period( date, freq ).ordinal
PeriodOf(date, f) ==
    CASE f = "D" -> ToOrdinal(date)
      [] f = "W" -> (ToOrdinal(date) - 1) \div 7
      [] f = "M" -> ((date[1] - Epoch[1]) * 12) + (date[2] - 1)
      [] f = "Q" -> ((date[1] - Epoch[1]) * 4) + ((date[2] - 1) \div 3)
      [] f = "Y" -> date[1] - Epoch[1]

\* ordinal of the first day of period p
PeriodFirstDay(p, f) ==
    CASE f = "D" -> p
      [] f = "W" -> (7 * p) + 1
      [] f = "M" -> ToOrdinal(<< Epoch[1] + (p \div 12), (p % 12) + 1, 1 >>)
      [] f = "Q" -> ToOrdinal(<< Epoch[1] + (p \div 4), (3 * (p % 4)) + 1, 1 >>)
      [] f = "Y" -> ToOrdinal(<< Epoch[1] + p, 1, 1 >>)

\* Period.to_timestamp( how='start' ): the period's first instant
StartTime(p, f) == Midnight(PeriodFirstDay(p, f))

\* a slip: the period's end taken as the first instant of the next period
EndTimeNextPeriod(p, f) == Midnight(PeriodFirstDay(p + 1, f))

\* Period.to_timestamp( how='end' ): the last instant before the next period
EndTime(p, f) == Midnight(PeriodFirstDay(p + 1, f)) - 1

\* a slip: the time of day rounded up to the next midnight
NormalizeUp(t) == t + (t % 2)

\* Timestamp.normalize(): the time of day set to midnight
Normalize(t) == t - (t % 2)

\* pd.period_range( start, end, freq ): the ordinals of the periods of start
\* to end; empty when start's period is after end's
PeriodRange(s, e, f) ==
    LET a == PeriodOf(s, f)
        b == PeriodOf(e, f)
    IN  [ k \in 1 .. (b - a + 1) |-> a + k - 1 ]

\* get_intervals for a recognised frequency
GetIntervals(s, e, f) ==
    LET period == PeriodRange(s, e, f)
        d1 == [ k \in DOMAIN period |-> Normalize(StartTime(period[k], f)) ]
        d2 == [ k \in DOMAIN period |-> Normalize(EndTime(period[k], f)) ]
    IN  [ k \in DOMAIN period |->
            [ start |-> Strftime(DayOf(d1[k])), end |-> Strftime(DayOf(d2[k])) ] ]

FirstDate == << 2023, 12, 25 >>

Dates == { Strftime(ToOrdinal(FirstDate) + k) : k \in 0 .. MaxSpan }

\* the frequency strings a caller passes: the recognised ones and one that
\* pandas does not know
FreqInputs == Frequencies \cup { "fortnight" }

giIdle == start = None /\ end = None /\ freq = None /\ gi_pc = "idle"
            /\ gi_result = << >>
rdIdle == collection = {} /\ intervals = << >> /\ method = None
            /\ meta_type = None /\ names = None /\ idx = 0 /\ subset = {}
            /\ images = << >> /\ attempted = << >> /\ rd_pc = "idle"
mlIdle == series = << >> /\ label = None /\ confidence = None /\ ml_pc = "idle"
mmIdle == pseries = << >> /\ median = None /\ plabel = None
            /\ pconfidence = None /\ mm_pc = "idle"
emIdle == region = << >> /\ npoints = 0 /\ samples = {} /\ matrix = << >>
            /\ accuracy = None /\ em_pc = "idle"
nmIdle == em = << >> /\ labels = << >> /\ df = << >> /\ nm_pc = "idle"

(***************************************************************************)
(* get_intervals( start, end, freq )                                       *)
(***************************************************************************)
InitIntervals ==
    /\ start \in Dates
    /\ end \in Dates
    /\ freq \in FreqInputs
    /\ gi_pc = "call"
    /\ gi_result = << >>
    /\ rdIdle /\ mlIdle /\ mmIdle /\ emIdle /\ nmIdle

\* pd.period_range raises ValueError for a frequency string it does not know
GetIntervalsRaise ==
    /\ gi_pc = "call"
    /\ freq \notin Frequencies
    /\ gi_pc' = "ValueError"
    /\ UNCHANGED << start, end, freq, gi_result, rdVars, mlVars, mmVars, emVars, nmVars >>

GetIntervalsReturn ==
    /\ gi_pc = "call"
    /\ freq \in Frequencies
    /\ gi_result' = GetIntervals(start, end, freq)
    /\ gi_pc' = "returned"
    /\ UNCHANGED << start, end, freq, rdVars, mlVars, mmVars, emVars, nmVars >>

NextIntervals == GetIntervalsRaise \/ GetIntervalsReturn

SpecIntervals == InitIntervals /\ [][NextIntervals]_vars

(***************************************************************************)
(* reduce_to_intervals( collection, intervals, method, meta_type, names )  *)
(*                                                                         *)
(* The Earth Engine client is lazy: filterDate, reduce, rename, set and    *)
(* List.add only build the expression of a server-side value, and none of  *)
(* them looks at the data or raises in the client.  An image is therefore  *)
(* the record of how the server will compute it: the images it is reduced  *)
(* from, its reducer, its band names and its metadata.  The one statement  *)
(* of the try block that can raise in the client is the dictionary lookup  *)
(* _reducer_lut[ method ] (KeyError).                                      *)
(***************************************************************************)
\* names to reducer object lookup table
ReducerLut == { "mean", "median", "mode", "max", "min" }

\* names of class probability bands (the first three of the nine)
ProbabilityBands == << "water", "trees", "grass" >>

\* the bands of an image of the collection
CollectionBands == ProbabilityBands \o << "label" >>

\* ee.Date( string ).millis(), in half days
Millis(date) == Midnight(ToOrdinal(date))

\* collection.filterDate( d1, d2 ): start inclusive, end exclusive
FilterDate(c, d1, d2) == { t \in c : d1 <= t /\ t < d2 }

\* collection.filterDate( d1 ): the one-millisecond range starting at d1
FilterDateSingle(c, d1) == { t \in c : t = d1 }

\* the sub-series of one interval (lines 137-140); ee.Date objects compare
\* equal when they are built from equal strings
Subset(c, interval) ==
    IF interval.start = interval.end
    THEN FilterDateSingle(c, Millis(interval.start))
    ELSE FilterDate(c, Millis(interval.start), Millis(interval.end))

\* the bands of subset.reduce( reducer ): one per band of the inputs, and
\* none at all when there is no input image
ReducedBands(sub, m) ==
    IF sub = {} THEN << >>
    ELSE [ k \in DOMAIN CollectionBands |-> << CollectionBands[k], m >> ]

\* image.rename( names ): the server rejects a list of another length when
\* the image is computed; the client call itself always returns
Rename(bands, nm) ==
    IF Len(nm) = Len(bands) THEN [ bands |-> nm, deferred |-> None ]
    ELSE [ bands |-> bands, deferred |-> "rename: band count mismatch" ]

\* the metadata of the aggregate (lines 149-159)
Meta(interval, mt) ==
    LET d1 == Millis(interval.start)
        d2 == Millis(interval.end)
    IN  IF mt = "aggregation_period"
        THEN [ time_start |-> d1, time_end |-> d2 ]
        ELSE [ time_start |-> d1 + ((d2 - d1) \div 2), time_end |-> None ]

\* the image added for interval k (lines 142-161)
ReducedImage(c, k, interval, m, mt, nm) ==
    LET sub == Subset(c, interval)
        red == ReducedBands(sub, m)
        ren == IF nm # None THEN Rename(red, nm)
               ELSE [ bands |-> red, deferred |-> None ]
    IN  [ interval |-> k, members |-> sub, reducer |-> m,
          bands |-> ren.bands, deferred |-> ren.deferred,
          meta |-> Meta(interval, mt) ]

\* a slip: the handler leaves the loop
Break(i, n) == n + 1

\* except BaseException: print( err ); continue
Continue(i, n) == i + 1

ReduceDates == { Strftime(ToOrdinal(FirstDate) + k) : k \in 0 .. MaxReduceSpan }

Times == { Millis(d) + h : d \in ReduceDates, h \in {0, 1} }

IntervalInputs == { [ start |-> a, end |-> b ] : a, b \in ReduceDates }

MethodInputs == { "median", "average" }

NamesInputs == { None, << "w", "t", "g", "lc" >>, << "lc" >> }

InitReduce ==
    /\ collection \in { c \in SUBSET Times : Cardinality(c) <= MaxImages }
    /\ intervals \in UNION { [ 1 .. n -> { v \in IntervalInputs :
                                             DateLE(v.start, v.end) } ] :
                             n \in 0 .. MaxIntervals }
    /\ method \in MethodInputs
    /\ meta_type \in { "aggregation_period", "midpoint" }
    /\ names \in NamesInputs
    /\ idx = 1
    /\ subset = {}
    /\ images = << >>
    /\ attempted = << >>
    /\ rd_pc = "loop"
    /\ giIdle /\ mlIdle /\ mmIdle /\ emIdle /\ nmIdle

\* one pass of the loop body that reaches images.add
ReduceInterval ==
    /\ rd_pc = "loop"
    /\ idx <= Len(intervals)
    /\ method \in ReducerLut
    /\ subset' = Subset(collection, intervals[idx])
    /\ images' = Append(images, ReducedImage(collection, idx, intervals[idx],
                                             method, meta_type, names))
    /\ attempted' = Append(attempted, idx)
    /\ idx' = idx + 1
    /\ UNCHANGED << collection, intervals, method, meta_type, names, rd_pc,
                    giVars, mlVars, mmVars, emVars, nmVars >>

\* one pass of the loop body in which _reducer_lut[ method ] raises KeyError:
\* the handler prints it and goes on with the next interval
ReduceIntervalExcept ==
    /\ rd_pc = "loop"
    /\ idx <= Len(intervals)
    /\ method \notin ReducerLut
    /\ subset' = Subset(collection, intervals[idx])
    /\ attempted' = Append(attempted, idx)
    /\ idx' = Continue(idx, Len(intervals))
    /\ UNCHANGED << collection, intervals, method, meta_type, names, images,
                    rd_pc, giVars, mlVars, mmVars, emVars, nmVars >>

\* return ee.ImageCollection.fromImages( images )
ReduceReturn ==
    /\ rd_pc = "loop"
    /\ idx > Len(intervals)
    /\ rd_pc' = "returned"
    /\ UNCHANGED << collection, intervals, method, meta_type, names, idx,
                    subset, images, attempted, giVars, mlVars, mmVars, emVars, nmVars >>

NextReduce == ReduceInterval \/ ReduceIntervalExcept \/ ReduceReturn

SpecReduce == InitReduce /\ [][NextReduce]_vars

(***************************************************************************)
(* Earth Engine per-pixel arithmetic.  A pixel of a band is a value with a *)
(* mask: [ mask |-> 0 or 1, value |-> v ].  A number that need not be an   *)
(* integer is the fraction [ num |-> n, den |-> d ] with n >= 0, d > 0.    *)
(***************************************************************************)
RECURSIVE SumSeq(_)
SumSeq(q) == IF q = << >> THEN 0 ELSE Head(q) + SumSeq(Tail(q))

\* the values of the unmasked pixels of a series, in series order
ValidValues(px) ==
    LET keep == { k \in DOMAIN px : px[k].mask = 1 }
        RECURSIVE Pick(_)
        Pick(k) == IF k > Len(px) THEN << >>
                   ELSE IF k \in keep THEN << px[k].value >> \o Pick(k + 1)
                   ELSE Pick(k + 1)
    IN  Pick(1)

Count(vals, v) == Cardinality({ k \in DOMAIN vals : vals[k] = v })

\* a slip: of the most frequent values the highest one
ReducerModeHighest(px) ==
    LET vals == ValidValues(px)
        best == { v \in { vals[k] : k \in DOMAIN vals } :
                    \A k \in DOMAIN vals : Count(vals, vals[k]) <= Count(vals, v) }
    IN  IF vals = << >> THEN [ mask |-> 0, value |-> 0 ]
        ELSE [ mask |-> 1,
               value |-> CHOOSE v \in best : \A w \in best : w <= v ]

\* collection.reduce( ee.Reducer.mode() ): the most frequent of the unmasked
\* values, of several equally frequent ones the lowest; masked where no
\* input is unmasked
ReducerMode(px) ==
    LET vals == ValidValues(px)
        best == { v \in { vals[k] : k \in DOMAIN vals } :
                    \A k \in DOMAIN vals : Count(vals, vals[k]) <= Count(vals, v) }
    IN  IF vals = << >> THEN [ mask |-> 0, value |-> 0 ]
        ELSE [ mask |-> 1,
               value |-> CHOOSE v \in best : \A w \in best : v <= w ]

\* a slip: the sum of no unmasked value taken as an unmasked 0
ReducerSumUnmasked(px) == [ mask |-> 1, value |-> SumSeq(ValidValues(px)) ]

\* collection.reduce( ee.Reducer.sum() ): the sum of the unmasked values;
\* masked where no input is unmasked
ReducerSum(px) ==
    LET vals == ValidValues(px)
    IN  IF vals = << >> THEN [ mask |-> 0, value |-> 0 ]
        ELSE [ mask |-> 1, value |-> SumSeq(vals) ]

\* a.eq( b ): 1 where the values are equal, masked where either is
Eq(a, b) ==
    [ mask |-> a.mask * b.mask, value |-> IF a.value = b.value THEN 1 ELSE 0 ]

\* a.updateMask( m )
UpdateMask(a, m) == [ mask |-> a.mask * m.value, value |-> a.value ]

\* a.mask(): the mask as an image of its own, nowhere masked
Mask(a) == [ mask |-> 1, value |-> a.mask ]

\* a.divide( b ): 0 where b is 0, masked where either is
Divide(a, b) ==
    [ mask |-> a.mask * b.mask,
      value |-> IF b.value = 0 THEN [ num |-> 0, den |-> 1 ]
                ELSE [ num |-> a.value, den |-> b.value ] ]

\* a.multiply( n ) of a fraction-valued pixel
Multiply(a, n) ==
    [ mask |-> a.mask, value |-> [ num |-> a.value.num * n, den |-> a.value.den ] ]

\* a slip: the fraction rounded to the nearest integer
ToIntRounded(a) ==
    [ mask |-> a.mask,
      value |-> ((2 * a.value.num) + a.value.den) \div (2 * a.value.den) ]

\* a.toInt(): the cast drops the fractional part
ToInt(a) == [ mask |-> a.mask, value |-> a.value.num \div a.value.den ]

(***************************************************************************)
(* get_mode_label( collection ), for one pixel of the 'label' band         *)
(***************************************************************************)
Classes == 0 .. (NumClasses - 1)

MaskedPixel == [ mask |-> 0, value |-> 0 ]

LabelPixels == { [ mask |-> 1, value |-> c ] : c \in Classes } \cup { MaskedPixel }

\* get_match( image ) (lines 142-144)
GetMatch(image, target) == UpdateMask(Eq(image, target), Mask(image))

\* get_nodata_mask( image ) (lines 151-152)
GetNodataMask(image) == Mask(image)

\* get_mode_confidence( collection, band, target )
GetModeConfidence(px, target) ==
    LET matches == ReducerSum([ k \in DOMAIN px |-> GetMatch(px[k], target) ])
        max_obs_count == ReducerSum([ k \in DOMAIN px |-> GetNodataMask(px[k]) ])
    IN  ToInt(Multiply(Divide(matches, max_obs_count), 100))

InitMode ==
    /\ series \in UNION { [ 1 .. n -> LabelPixels ] : n \in 0 .. MaxObs }
    /\ label = None
    /\ confidence = None
    /\ ml_pc = "call"
    /\ giIdle /\ rdIdle /\ mmIdle /\ emIdle /\ nmIdle

GetModeLabel ==
    /\ ml_pc = "call"
    /\ label' = ReducerMode(series)
    /\ confidence' = GetModeConfidence(series, ReducerMode(series))
    /\ ml_pc' = "returned"
    /\ UNCHANGED << series, giVars, rdVars, mmVars, emVars, nmVars >>

NextMode == GetModeLabel

SpecMode == InitMode /\ [][NextMode]_vars

(***************************************************************************)
(* Properties of get_mode_label                                            *)
(***************************************************************************)
ValidObservations == { k \in DOMAIN series : series[k].mask = 1 }

MatchingObservations == { k \in ValidObservations : series[k].value = label.value }

\* n / d rounded to the nearest integer (no quotient of the model lies
\* half way between two integers)
RoundDiv(n, d) == ((2 * n) + d) \div (2 * d)

\* C8 as stated: with at least one valid observation the confidence is
\* round( 100 * matchCount / validObservationCount ), an integer of [0,100].
C8_RoundedShare ==
    ml_pc = "returned" /\ ValidObservations # {} =>
        /\ confidence.mask = 1
        /\ confidence.value = RoundDiv(100 * Cardinality(MatchingObservations),
                                       Cardinality(ValidObservations))
        /\ confidence.value \in 0 .. 100

\* C8 as the code has it: with at least one valid observation the
\* confidence is 100 * matchCount / validObservationCount with the
\* fractional part dropped (2 of 3 gives 66), an integer of [0,100].
C8_TruncatedShare ==
    ml_pc = "returned" /\ ValidObservations # {} =>
        /\ confidence.mask = 1
        /\ confidence.value = (100 * Cardinality(MatchingObservations))
                                  \div Cardinality(ValidObservations)
        /\ confidence.value \in 0 .. 100

\* 2 matches of 3 valid observations, one image masked
C8_Witness ==
    /\ ml_pc = "returned"
    /\ Cardinality(ValidObservations) = 3 /\ Len(series) = 4
    /\ Cardinality(MatchingObservations) = 2
    /\ confidence = [ mask |-> 1, value |-> 66 ]

AllValid == Len(series) >= 1 /\ ValidObservations = DOMAIN series

C14_MaskedAlike ==
    ml_pc = "returned" /\ Len(series) >= 1 =>
        /\ ValidObservations = {} => label.mask = 0 /\ confidence.mask = 0
        /\ confidence.mask = 0 <=> label.mask = 0

\* two rasters, the pixel masked in both
C14_Witness ==
    /\ ml_pc = "returned"
    /\ series = << MaskedPixel, MaskedPixel >>
    /\ label.mask = 0 /\ confidence.mask = 0

(***************************************************************************)
(* get_max_median_label( collection ), for one pixel.  A probability is    *)
(* counted in thousandths; an image's pixel holds one value per            *)
(* probability band under one mask.                                        *)
(***************************************************************************)
Levels == { 100, 200, 700, 706 }

BandIndex == DOMAIN ProbabilityBands

\* the class probabilities of a pixel sum to 1 at most, within a hundredth
ProbPixels ==
    { [ mask |-> 1, value |-> v ] :
        v \in { w \in [ BandIndex -> Levels ] : SumSeq(w) <= 1010 } }
        \cup { [ mask |-> 0, value |-> [ b \in BandIndex |-> 0 ] ] }

\* the values of a sequence in ascending order
RECURSIVE Sorted(_)
Sorted(q) ==
    IF q = << >> THEN << >>
    ELSE LET lo == CHOOSE k \in DOMAIN q : \A j \in DOMAIN q : q[k] <= q[j]
         IN  << q[lo] >> \o Sorted([ j \in 1 .. (Len(q) - 1) |->
                                       IF j < lo THEN q[j] ELSE q[j + 1] ])

\* ee.Reducer.median() of one band: the middle of the unmasked values, the
\* mean of the two middle ones when their number is even; masked where no
\* input is unmasked
ReducerMedian(px) ==
    LET vals == Sorted(ValidValues(px))
        n == Len(vals)
    IN  IF n = 0 THEN [ mask |-> 0, value |-> [ num |-> 0, den |-> 1000 ] ]
        ELSE IF n % 2 = 1
        THEN [ mask |-> 1, value |-> [ num |-> vals[(n + 1) \div 2], den |-> 1000 ] ]
        ELSE [ mask |-> 1,
               value |-> [ num |-> vals[n \div 2] + vals[(n \div 2) + 1],
                           den |-> 2000 ] ]

\* collection.select( probability_bands ).median(): band by band
Median(ps) ==
    [ b \in BandIndex |->
        ReducerMedian([ k \in DOMAIN ps |->
                          [ mask |-> ps[k].mask, value |-> ps[k].value[b] ] ]) ]

FracLT(x, y) == x.num * y.den < y.num * x.den

\* image.toArray(): the bands as one array-valued pixel, masked where any
\* band is
ToArray(med) ==
    [ mask |-> IF \A b \in BandIndex : med[b].mask = 1 THEN 1 ELSE 0,
      value |-> [ b \in BandIndex |-> med[b].value ] ]

\* a slip: of several maximal entries the last one
ArrayArgmaxLast(arr) ==
    [ mask |-> arr.mask,
      value |-> (CHOOSE b \in BandIndex :
                   /\ \A c \in BandIndex : ~FracLT(arr.value[b], arr.value[c])
                   /\ \A c \in BandIndex : c > b => FracLT(arr.value[c], arr.value[b]))
                - 1 ]

\* arr.arrayArgmax().arrayGet( [0] ): the 0-based position of the maximum,
\* of several occurrences the first
ArrayArgmax(arr) ==
    [ mask |-> arr.mask,
      value |-> (CHOOSE b \in BandIndex :
                   /\ \A c \in BandIndex : ~FracLT(arr.value[b], arr.value[c])
                   /\ \A c \in BandIndex : c < b => FracLT(arr.value[c], arr.value[b]))
                - 1 ]

\* arr.arrayReduce( ee.Reducer.max(), [0] ).arrayGet( [0] )
ArrayMax(arr) ==
    [ mask |-> arr.mask,
      value |-> arr.value[CHOOSE b \in BandIndex :
                            \A c \in BandIndex : ~FracLT(arr.value[b], arr.value[c])] ]

\* get_max_median_confidence( median_arr )
GetMaxMedianConfidence(arr) == ToInt(Multiply(ArrayMax(arr), 100))

InitMedian ==
    /\ pseries \in UNION { [ 1 .. n -> ProbPixels ] : n \in 0 .. MaxProbImages }
    /\ median = None
    /\ plabel = None
    /\ pconfidence = None
    /\ mm_pc = "call"
    /\ giIdle /\ rdIdle /\ mlIdle /\ emIdle /\ nmIdle

GetMaxMedianLabel ==
    /\ mm_pc = "call"
    /\ median' = Median(pseries)
    /\ plabel' = ArrayArgmax(ToArray(Median(pseries)))
    /\ pconfidence' = GetMaxMedianConfidence(ToArray(Median(pseries)))
    /\ mm_pc' = "returned"
    /\ UNCHANGED << pseries, giVars, rdVars, mlVars, emVars, nmVars >>

NextMedian == GetMaxMedianLabel

SpecMedian == InitMedian /\ [][NextMedian]_vars

(***************************************************************************)
(* Properties of get_max_median_label                                      *)
(***************************************************************************)
MedianDefined ==
    mm_pc = "returned" /\ \A b \in BandIndex : median[b].mask = 1

\* the entries of the median vector that no entry exceeds
MaxEntries ==
    { b \in BandIndex :
        \A c \in BandIndex :
            median[c].value.num * median[b].value.den
                <= median[b].value.num * median[c].value.den }

LowestMaxEntry == CHOOSE b \in MaxEntries : \A c \in MaxEntries : b <= c

\* C10 as stated: the label is the index of the maximum median, the lowest
\* on ties, and the confidence is round( 100 * maxEntryValue ), an integer
\* of [0,100].
C10_RoundedMaximum ==
    MedianDefined =>
        /\ plabel = [ mask |-> 1, value |-> LowestMaxEntry - 1 ]
        /\ pconfidence.mask = 1
        /\ pconfidence.value = RoundDiv(100 * median[LowestMaxEntry].value.num,
                                        median[LowestMaxEntry].value.den)
        /\ pconfidence.value \in 0 .. 100

\* C10 as the code has it: the label is the index of the maximum median,
\* the lowest on ties, and the confidence is 100 * maxEntryValue with the
\* fractional part dropped, an integer of [0,100]; the median vector
\* [0.1, 0.7, 0.2] gives label 1 and confidence 70.
C10_TruncatedMaximum ==
    MedianDefined =>
        /\ plabel = [ mask |-> 1, value |-> LowestMaxEntry - 1 ]
        /\ pconfidence.mask = 1
        /\ pconfidence.value = (100 * median[LowestMaxEntry].value.num)
                                   \div median[LowestMaxEntry].value.den
        /\ pconfidence.value \in 0 .. 100
        /\ [ b \in BandIndex |-> median[b].value ]
               = << [ num |-> 100, den |-> 1000 ], [ num |-> 700, den |-> 1000 ],
                    [ num |-> 200, den |-> 1000 ] >>
           => plabel.value = 1 /\ pconfidence.value = 70

\* the median vector [0.1, 0.7, 0.2]
C10_Witness ==
    /\ MedianDefined
    /\ [ b \in BandIndex |-> median[b].value ]
           = << [ num |-> 100, den |-> 1000 ], [ num |-> 700, den |-> 1000 ],
                [ num |-> 200, den |-> 1000 ] >>
    /\ plabel = [ mask |-> 1, value |-> 1 ]
    /\ pconfidence = [ mask |-> 1, value |-> 70 ]

(***************************************************************************)
(* Numbers that may be undefined: the quotient of two counts is            *)
(* [ kind |-> "num", num |-> n, den |-> d ] with d > 0, or not a number    *)
(* (0 / 0), or infinite (n / 0 with n > 0), as IEEE division has it.       *)
(***************************************************************************)
NaN == [ kind |-> "nan", num |-> 0, den |-> 1 ]

Inf == [ kind |-> "inf", num |-> 1, den |-> 1 ]

Quotient(n, d) ==
    IF d # 0 THEN [ kind |-> "num", num |-> n, den |-> d ]
    ELSE IF n = 0 THEN NaN ELSE Inf

(***************************************************************************)
(* get_error_matrix( reference, prediction, region, npoints, scale, seed ) *)
(*                                                                         *)
(* The region is the sequence of its pixels at the sampling scale, each    *)
(* with its reference and its prediction pixel.  The seed stands behind    *)
(* the choice of the sample.                                               *)
(***************************************************************************)
RegionPixels ==
    { [ reference |-> [ mask |-> 1, value |-> r ],
        prediction |-> [ mask |-> 1, value |-> q ] ] : r, q \in Classes }
    \cup { [ reference |-> MaskedPixel, prediction |-> [ mask |-> 1, value |-> 0 ] ],
           [ reference |-> [ mask |-> 1, value |-> 0 ], prediction |-> MaskedPixel ] }

\* the pixels a sample can hold: those unmasked in both bands
ValidPixels(reg) ==
    { k \in DOMAIN reg : reg[k].reference.mask = 1 /\ reg[k].prediction.mask = 1 }

Min(a, b) == IF a <= b THEN a ELSE b

\* image.stratifiedSample( numPoints, classBand='reference', ... ): the
\* samples the backend may draw: numPoints pixels of every class of the
\* class band, or all of a class that has fewer
StratifiedSample(reg, n) ==
    { S \in SUBSET ValidPixels(reg) :
        \A c \in Classes :
            Cardinality({ k \in S : reg[k].reference.value = c })
                = Min(n, Cardinality({ k \in ValidPixels(reg) :
                                         reg[k].reference.value = c })) }

\* one more than the largest class value among the samples
MatrixSize(reg, S) ==
    IF S = {} THEN 0
    ELSE 1 + (CHOOSE v \in Classes :
                /\ \E k \in S : v \in { reg[k].reference.value, reg[k].prediction.value }
                /\ \A k \in S : reg[k].reference.value <= v
                                  /\ reg[k].prediction.value <= v)

RECURSIVE Tally(_, _, _)
Tally(reg, S, m) ==
    IF S = {} THEN m
    ELSE LET k == CHOOSE x \in S : TRUE
         IN  Tally(reg, S \ { k },
                   [ m EXCEPT ![reg[k].reference.value + 1]
                               [reg[k].prediction.value + 1] = @ + 1 ])

\* samples.errorMatrix( 'reference', 'prediction' ): rows are the reference
\* class, columns the predicted class, classes 0 .. the largest value
ErrorMatrix(reg, S) ==
    LET n == MatrixSize(reg, S)
    IN  Tally(reg, S, [ i \in 1 .. n |-> [ j \in 1 .. n |-> 0 ] ])

MatrixTrace(m) == SumSeq([ i \in DOMAIN m |-> m[i][i] ])

MatrixTotal(m) == SumSeq([ i \in DOMAIN m |-> SumSeq(m[i]) ])

\* a slip: the share of the samples off the diagonal
ErrorRate(m) == Quotient(MatrixTotal(m) - MatrixTrace(m), MatrixTotal(m))

\* matrix.accuracy(): the share of the samples on the diagonal
Accuracy(m) == Quotient(MatrixTrace(m), MatrixTotal(m))

InitErrorMatrix ==
    /\ region \in UNION { [ 1 .. n -> RegionPixels ] : n \in 0 .. MaxPixels }
    /\ npoints \in 1 .. MaxPoints
    /\ samples = {}
    /\ matrix = << >>
    /\ accuracy = None
    /\ em_pc = "call"
    /\ giIdle /\ rdIdle /\ mlIdle /\ mmIdle /\ nmIdle

\* the whole call: sample, cross-tabulate, fetch the matrix and its accuracy
GetErrorMatrix ==
    /\ em_pc = "call"
    /\ \E S \in StratifiedSample(region, npoints) :
          /\ samples' = S
          /\ matrix' = ErrorMatrix(region, S)
          /\ accuracy' = Accuracy(ErrorMatrix(region, S))
    /\ em_pc' = "returned"
    /\ UNCHANGED << region, npoints, giVars, rdVars, mlVars, mmVars, nmVars >>

\* getInfo() is a request to the backend; an error of the backend is not
\* caught and leaves the call as ee.EEException
GetErrorMatrixBackendError ==
    /\ em_pc = "call"
    /\ em_pc' = "EEException"
    /\ UNCHANGED << region, npoints, samples, matrix, accuracy,
                    giVars, rdVars, mlVars, mmVars, nmVars >>

NextErrorMatrix == GetErrorMatrix \/ GetErrorMatrixBackendError

SpecErrorMatrix == InitErrorMatrix /\ [][NextErrorMatrix]_vars

(***************************************************************************)
(* Properties of get_error_matrix                                          *)
(***************************************************************************)
SamplesOf(r, q) ==
    { k \in samples : region[k].reference.value = r /\ region[k].prediction.value = q }

Agreeing == { k \in samples : region[k].reference.value = region[k].prediction.value }

\* C11: the matrix counts the (reference, predicted) pairs of the sampled
\* points and the overall accuracy is trace / sum; when reference and
\* prediction agree at every sampled point every off-diagonal count is 0
\* and the accuracy is exactly 1.
C11_AccuracyIsTraceOverSum ==
    em_pc = "returned" /\ samples # {} =>
        /\ \A k \in samples : region[k].reference.value + 1 \in DOMAIN matrix
                                /\ region[k].prediction.value + 1 \in DOMAIN matrix
        /\ \A i \in DOMAIN matrix : DOMAIN matrix[i] = DOMAIN matrix
        /\ \A i, j \in DOMAIN matrix :
              matrix[i][j] = Cardinality(SamplesOf(i - 1, j - 1))
        /\ accuracy.kind = "num"
        /\ accuracy.num * Cardinality(samples)
              = Cardinality(Agreeing) * accuracy.den
        /\ Agreeing = samples =>
              /\ \A i, j \in DOMAIN matrix : i # j => matrix[i][j] = 0
              /\ accuracy.num = accuracy.den

\* two sampled points of different classes, both predicted right
C11_Witness ==
    /\ em_pc = "returned"
    /\ Cardinality(samples) = 2 /\ Agreeing = samples
    /\ matrix = << << 1, 0 >>, << 0, 1 >> >>
    /\ accuracy = [ kind |-> "num", num |-> 2, den |-> 2 ]

\* C12: when the sampling of the region yields no valid sample point the
\* call fails; it never returns a matrix and an accuracy for an empty sample.
C12_EmptyRegionFails ==
    em_pc # "call" /\ ValidPixels(region) = {} => em_pc # "returned"

(***************************************************************************)
(* get_normalised_error_matrix( em, labels )                               *)
(***************************************************************************)
\* standard legend (its first names)
Legend == << "water", "trees", "grass", "flooded" >>

SquareMatrices ==
    UNION { [ 1 .. n -> [ 1 .. n -> 0 .. MaxCount ] ] : n \in 1 .. MaxDim }

\* the label lists a caller passes: as many names as the matrix has rows,
\* or one more
LabelInputs(m) == { SubSeq(Legend, 1, Len(m)), SubSeq(Legend, 1, Len(m) + 1) }

\* df.sum( axis=1 ): the sum of every row
RowSums(m) == [ i \in DOMAIN m |-> SumSeq(m[i]) ]

\* the sum of every column
ColumnSums(m) == [ j \in DOMAIN m |-> SumSeq([ i \in DOMAIN m |-> m[i][j] ]) ]

\* a slip: every column divided by its sum
DivByColumn(m) ==
    [ i \in DOMAIN m |-> [ j \in DOMAIN m[i] |->
        Quotient(m[i][j], ColumnSums(m)[j]) ] ]

\* df.div( df.sum( axis=1 ), axis=0 ): every row divided by its sum, in
\* floating point, so that 0 / 0 is NaN
DivByRow(m) ==
    [ i \in DOMAIN m |-> [ j \in DOMAIN m[i] |->
        Quotient(m[i][j], RowSums(m)[i]) ] ]

InitNormalise ==
    /\ em \in SquareMatrices
    /\ labels \in LabelInputs(em)
    /\ df = << >>
    /\ nm_pc = "call"
    /\ giIdle /\ rdIdle /\ mlIdle /\ mmIdle /\ emIdle

\* pd.DataFrame( em, index=labels, columns=labels ) raises ValueError when
\* the labels do not fit the shape of the matrix
GetNormalisedErrorMatrixRaise ==
    /\ nm_pc = "call"
    /\ Len(labels) # Len(em)
    /\ nm_pc' = "ValueError"
    /\ UNCHANGED << em, labels, df, giVars, rdVars, mlVars, mmVars, emVars >>

GetNormalisedErrorMatrix ==
    /\ nm_pc = "call"
    /\ Len(labels) = Len(em)
    /\ df' = DivByRow(em)
    /\ nm_pc' = "returned"
    /\ UNCHANGED << em, labels, giVars, rdVars, mlVars, mmVars, emVars >>

NextNormalise == GetNormalisedErrorMatrixRaise \/ GetNormalisedErrorMatrix

SpecNormalise == InitNormalise /\ [][NextNormalise]_vars

(***************************************************************************)
(* Properties of get_normalised_error_matrix                               *)
(***************************************************************************)
\* the sum of row i of the raw matrix, cell by cell
RECURSIVE RawRowSum(_, _)
RawRowSum(i, j) == IF j = 0 THEN 0 ELSE em[i][j] + RawRowSum(i, j - 1)

\* C13: a row with a nonzero raw sum has every entry equal to
\* count / rowSum, so it sums to 1 and its entries lie in [0,1]; a row with
\* a zero raw sum is NaN throughout, never zero; a row's result depends on
\* that row alone.
C13_RowNormalised ==
    nm_pc = "returned" =>
        /\ DOMAIN df = DOMAIN em
        /\ \A i \in DOMAIN em :
              LET total == RawRowSum(i, Len(em[i])) IN
              /\ DOMAIN df[i] = DOMAIN em[i]
              /\ total # 0 =>
                    /\ \A j \in DOMAIN em[i] :
                          /\ df[i][j].kind = "num"
                          /\ df[i][j].num * total = em[i][j] * df[i][j].den
                          /\ 0 <= df[i][j].num /\ df[i][j].num <= df[i][j].den
                          /\ df[i][j].den = df[i][1].den
                    /\ SumSeq([ j \in DOMAIN em[i] |-> df[i][j].num ]) = df[i][1].den
              /\ total = 0 => \A j \in DOMAIN em[i] : df[i][j] = NaN
        /\ \A i, k \in DOMAIN em : em[i] = em[k] => df[i] = df[k]

\* a matrix with one row of samples and one row without any
C13_Witness ==
    /\ nm_pc = "returned"
    /\ em = << << 1, 1 >>, << 0, 0 >> >>
    /\ df[1] = << [ kind |-> "num", num |-> 1, den |-> 2 ],
                  [ kind |-> "num", num |-> 1, den |-> 2 ] >>
    /\ df[2] = << NaN, NaN >>

(***************************************************************************)
(* The module as a whole: a caller makes one of the calls.                 *)
(***************************************************************************)
Init ==
    \/ InitIntervals \/ InitReduce \/ InitMode \/ InitMedian
    \/ InitErrorMatrix \/ InitNormalise

Next ==
    \/ NextIntervals \/ NextReduce \/ NextMode \/ NextMedian
    \/ NextErrorMatrix \/ NextNormalise

Spec == Init /\ [][Next]_vars

(***************************************************************************)
(* Properties of reduce_to_intervals                                       *)
(***************************************************************************)
\* the loop body has run for interval idx - 1
Processed == rd_pc \in { "loop", "returned" } /\ idx > 1

\* C1: the sub-series reduced for an interval is exactly the images whose
\* timestamp t has start <= t <= end, both bounds inclusive (for
\* start = end: exactly the images stamped with that date).
C1_InclusiveSelection ==
    Processed =>
        LET interval == intervals[idx - 1] IN
        subset = { t \in collection :
                     Millis(interval.start) <= t /\ t <= Millis(interval.end) }

\* C2: an interval whose sub-series is empty emits no raster: the returned
\* series holds exactly one raster per interval with a non-empty sub-series.
C2_EmptyIntervalSkipped ==
    rd_pc = "returned" /\ method \in ReducerLut =>
        /\ \A k \in DOMAIN intervals :
              (\E j \in DOMAIN images : images[j].interval = k)
                  <=> Subset(collection, intervals[k]) # {}
        /\ Len(images) = Cardinality({ k \in DOMAIN intervals :
                                         Subset(collection, intervals[k]) # {} })

\* C3: an unknown method name (with an interval to reduce) or a renameTo
\* list whose length is not the band count (with an image to rename) makes
\* the call fail; it never returns a series as if it had succeeded.
C3_ErrorsPropagate ==
    rd_pc = "returned" =>
        /\ Len(intervals) >= 1 => method \in ReducerLut
        /\ /\ names # None
           /\ method \in ReducerLut
           /\ \E k \in DOMAIN intervals : Subset(collection, intervals[k]) # {}
           => Len(names) = Len(CollectionBands)

\* C4: a failure at one interval never prevents the processing of the later
\* ones: every interval is attempted exactly once, in list order, and the
\* rasters of the result are in the order of their intervals.
C4_EveryIntervalInOrder ==
    /\ rd_pc \in { "loop", "returned" } =>
          attempted = [ k \in 1 .. (idx - 1) |-> k ]
    /\ rd_pc = "returned" =>
          attempted = [ k \in 1 .. Len(intervals) |-> k ]
    /\ \A a, b \in DOMAIN images :
          a < b => images[a].interval < images[b].interval

\* two intervals, the first of which failed, and the call has returned
C4_Witness ==
    /\ rd_pc = "returned" /\ Len(intervals) = 2
    /\ method \notin ReducerLut
    /\ attempted = << 1, 2 >>

(***************************************************************************)
(* Properties of get_intervals                                             *)
(***************************************************************************)
\* is the date the first (last) day of a calendar period of frequency f
IsFirstDay(a, f) ==
    CASE f = "D" -> TRUE
      [] f = "W" -> ToOrdinal(a) % 7 = 1          \* a Monday
      [] f = "M" -> a[3] = 1
      [] f = "Q" -> a[3] = 1 /\ a[2] \in {1, 4, 7, 10}
      [] f = "Y" -> a[3] = 1 /\ a[2] = 1

IsLastDay(a, f) == IsFirstDay(NextDate(a), f)

\* a and b are the first and the last day of one and the same period
OnePeriod(a, b, f) ==
    /\ IsFirstDay(a, f) /\ IsLastDay(b, f) /\ DateLE(a, b)
    /\ \A c \in Dates : DateLE(a, c) /\ DateLT(c, b) => ~IsLastDay(c, f)
    /\ CASE f = "D" -> a = b
         [] f = "W" -> ToOrdinal(b) = ToOrdinal(a) + 6
         [] f = "M" -> a[1] = b[1] /\ a[2] = b[2]
         [] f = "Q" -> a[1] = b[1] /\ b[2] = a[2] + 2
         [] f = "Y" -> a[1] = b[1]

Returned == gi_pc = "returned"

\* C5: for start <= end and a supported frequency the returned intervals are
\* chronologically ordered, pairwise disjoint, contiguous (each starts the
\* day after the previous one ends), each has start <= end, and together
\* they cover every day of [start, end].
C5_Partition ==
    Returned /\ DateLE(start, end) =>
        LET r == gi_result IN
        /\ \A k \in DOMAIN r : DateLE(r[k].start, r[k].end)
        /\ \A k \in DOMAIN r : k > 1 => r[k].start = NextDate(r[k - 1].end)
        /\ \A j, k \in DOMAIN r : j < k => DateLT(r[j].end, r[k].start)
        /\ \A c \in Dates : DateLE(start, c) /\ DateLE(c, end) =>
                \E k \in DOMAIN r : DateLE(r[k].start, c) /\ DateLE(c, r[k].end)

C5_Witness ==
    /\ Returned /\ freq = "M" /\ Len(gi_result) = 3
    /\ start = << 2024, 1, 1 >> /\ end = << 2024, 3, 1 >>
    /\ gi_result[2] = [ start |-> << 2024, 2, 1 >>, end |-> << 2024, 2, 29 >> ]

\* C6 as stated: every interval runs from the first to the last day of its
\* period, except that the last interval ends at the end argument.
C6_TruncatedToEnd ==
    Returned /\ DateLE(start, end) =>
        LET r == gi_result IN
        /\ \A k \in DOMAIN r : IsFirstDay(r[k].start, freq)
        /\ \A k \in DOMAIN r : k < Len(r) => IsLastDay(r[k].end, freq)
        /\ Len(r) >= 1 /\ r[Len(r)].end = end

\* C6 as the code has it: every interval, the last one included, runs from
\* the first to the last day of its period; the last interval is the whole
\* period that holds the end argument, so it ends on or after end.
C6_WholePeriods ==
    Returned /\ DateLE(start, end) =>
        LET r == gi_result IN
        /\ \A k \in DOMAIN r : OnePeriod(r[k].start, r[k].end, freq)
        /\ Len(r) >= 1
        /\ DateLE(r[Len(r)].start, end) /\ DateLE(end, r[Len(r)].end)

C6_Witness ==
    /\ Returned /\ freq = "M" /\ Len(gi_result) = 2
    /\ end = << 2024, 1, 15 >>
    /\ gi_result[2].end = << 2024, 1, 31 >>

\* C7: get_intervals fails whenever start > end or freq is not recognised;
\* it never returns a list for such inputs.
C7_InvalidRangeFails ==
    gi_pc # "call" /\ (DateLT(end, start) \/ freq \notin Frequencies) =>
        gi_pc # "returned"

====
